---- MODULE Spec2Model ----
(***************************************************************************)
(* Model of the MCP agent (src/agent): the request pipeline of             *)
(* MCPAgent.process_request / _execute_tasks, the parsing done by          *)
(* LLMInterface, and the client / tool registry of ConnectionManager.      *)
(*                                                                         *)
(* Strings of the program are TLA+ strings; the Japanese literals of the   *)
(* source are written here as ASCII paraphrases (the source line of each   *)
(* is given where it is defined).  A JSON value coming back from the LLM   *)
(* is a record tagged by its field k: "str", "num" (standing for every     *)
(* value that is neither a string nor a dict: number, null, bool),         *)
(* "dict", or "absent" for a key that the dict does not have.              *)
(***************************************************************************)
EXTENDS Naturals, Sequences, FiniteSets, TLC

VARIABLES
    config,                 \* MCPAgent.config (the part the claims name)
    clients,                \* ConnectionManager.clients: dict, as the sequence of its keys
    tools_info,             \* ConnectionManager.tools_info: dict, as the sequence of its items
    initialized,            \* ConnectionManager._initialized
    conversation_history,   \* MCPAgent.conversation_history
    pc,                     \* where the current process_request call stands
    user_query,             \* process_request: user_query
    context,                \* process_request: context
    verdict,                \* process_request: exec_type of this turn
    planned,                \* generate_task_list has been called in this turn
    task_list,              \* process_request: task_list
    step,                   \* _execute_tasks: 1 + the loop index i
    results,                \* _execute_tasks: results
    invoked,                \* the call_tool invocations of this turn, in order
    interpreted,            \* the arguments of the interpret_results calls of this turn
    response,               \* what process_request returns, or the exception it raises
    cm_last,                \* observation: the last ConnectionManager call and what the transports answered
    llm_call,               \* observation: the last LLMInterface call, its backend answer and its result
    platform,               \* sys.platform of the host
    text_call,              \* observation: the last tool output, raw, as call_tool gave it and as _execute_tasks recorded it
    init_run,               \* the initialize coroutine: the await it stands at, and what each transport will do
    calls                   \* the process_request coroutines running on the one agent: each caller's position and locals

vars == <<config, clients, tools_info, initialized, conversation_history, pc,
          user_query, context, verdict, planned, task_list, step, results,
          invoked, interpreted, response, cm_last, llm_call, platform, text_call,
          init_run, calls>>

cmVars == <<clients, tools_info, initialized>>
turnVars == <<user_query, context, verdict, planned, task_list, step, results,
              invoked, interpreted, response>>
obsVars == <<cm_last, llm_call>>
\* What the pipeline, the manager and the LLM interface specifications leave alone
extVars == <<platform, text_call, init_run, calls>>

-----------------------------------------------------------------------------
(* Bounds of the model *)

MaxTurns == 2       \* process_request calls per behaviour
MaxTasks == 2       \* length of a task list returned by the LLM

-----------------------------------------------------------------------------
(* JSON values and Python dict access *)

Str(s) == [k |-> "str", v |-> s]
Num == [k |-> "num", v |-> "42"]
Absent == [k |-> "absent", v |-> ""]

\* dict.get(key, default), the dict field being Absent when the key is missing
Get(field, default) == IF field = Absent THEN default ELSE field

-----------------------------------------------------------------------------
(* Configuration: config_manager.py *)

DefaultConfig ==
    [max_retries |-> 3, fallback_enabled |-> FALSE,
     context_limit |-> 10, max_history |-> 50]

\* A config.yaml that sets the four values
SmallConfig ==
    [max_retries |-> 2, fallback_enabled |-> TRUE,
     context_limit |-> 2, max_history |-> 2]

Configs == {DefaultConfig, SmallConfig}

-----------------------------------------------------------------------------
(* ConnectionManager: connection_manager.py *)

\* self.servers, in the order of the configuration file
Servers == <<"A", "B">>

\* A tool as list_tools of a server describes it
Tool(server, name) ==
    [name |-> name,
     inputSchema |-> "schema of " \o name \o " at " \o server,
     description |-> name \o " of " \o server]

\* What list_tools of each server answers
ListedTools(server) ==
    IF server = "A" THEN <<Tool("A", "list_tables"), Tool("A", "execute_safe_query")>>
                    ELSE <<Tool("B", "list_tables")>>

\* list_tools raises, or answers the tools the server has
ListFailed == [ok |-> FALSE, tools |-> <<>>]
Listed(tools) == [ok |-> TRUE, tools |-> tools]
Listings(server) == {ListFailed, Listed(ListedTools(server))}

\* The same, for a server whose tool set can also have lost its first tool
\* since the previous list_tools
ChangingListings(server) == Listings(server) \cup {Listed(Tail(ListedTools(server)))}

Range(seq) == {seq[n] : n \in DOMAIN seq}

\* dict.setdefault in the place of the assignment: the first writer of a key
\* keeps it
DictSetDefault(items, item) ==
    IF \E n \in DOMAIN items : items[n].name = item.name
    THEN items
    ELSE Append(items, item)

\* Python dict assignment d[key] = value on a dict kept as the sequence of its
\* items: an existing key keeps its position, a new key goes to the end
DictSet(items, item) ==
    IF \E n \in DOMAIN items : items[n].name = item.name
    THEN [n \in DOMAIN items |-> IF items[n].name = item.name THEN item ELSE items[n]]
    ELSE Append(items, item)

\* The loop without its try/except: the first failing connection ends it
RECURSIVE _connect_until_failure(_, _, _)
_connect_until_failure(cl, todo, connects) ==
    IF todo = <<>> THEN cl
    ELSE IF connects[Head(todo)]
         THEN _connect_until_failure(
                  IF Head(todo) \in Range(cl) THEN cl ELSE Append(cl, Head(todo)),
                  Tail(todo), connects)
         ELSE cl

RECURSIVE _connect_all_servers(_, _, _)
_connect_all_servers(cl, todo, connects) ==
    IF todo = <<>> THEN cl
    ELSE LET server_name == Head(todo)
             cl2 == IF connects[server_name]
                    THEN (IF server_name \in Range(cl) THEN cl ELSE Append(cl, server_name))
                    ELSE cl      \* except Exception: continue
         IN _connect_all_servers(cl2, Tail(todo), connects)

RECURSIVE RegisterTools(_, _, _)
RegisterTools(ti, server_name, tools) ==
    IF tools = <<>> THEN ti
    ELSE RegisterTools(DictSet(ti, [name |-> Head(tools).name,
                                    server |-> server_name,
                                    schema |-> Head(tools).inputSchema,
                                    description |-> Head(tools).description]),
                       server_name, Tail(tools))

\* The loop without its try/except: the first failing list_tools ends it
RECURSIVE _collect_until_failure(_, _, _)
_collect_until_failure(ti, todo, lists) ==
    IF todo = <<>> THEN ti
    ELSE IF lists[Head(todo)].ok
         THEN _collect_until_failure(
                  RegisterTools(ti, Head(todo), lists[Head(todo)].tools),
                  Tail(todo), lists)
         ELSE ti

RECURSIVE _collect_tools_info(_, _, _)
_collect_tools_info(ti, todo, lists) ==
    IF todo = <<>> THEN ti
    ELSE LET server_name == Head(todo)
             ti2 == IF lists[server_name].ok
                    THEN RegisterTools(ti, server_name, lists[server_name].tools)
                    ELSE ti      \* except Exception: continue
         IN _collect_tools_info(ti2, Tail(todo), lists)

ToolNames(ti) == {ti[n].name : n \in DOMAIN ti}

\* get_available_tools (line 143): list(self.tools_info.keys())
get_available_tools(ti) == [n \in DOMAIN ti |-> ti[n].name]

\* format_tools_for_llm (lines 148-176): one block per item of tools_info, in
\* the order of the dict, made of the name, the server, the description and
\* the parameters of the schema
format_tools_for_llm(ti) ==
    [n \in DOMAIN ti |->
        <<ti[n].name, " (server: ", ti[n].server, "): ", ti[n].description,
          " parameters: ", ti[n].schema>>]

\* self.tools_info[tool_name]
ToolInfo(ti, tool_name) == ti[CHOOSE n \in DOMAIN ti : ti[n].name = tool_name]

\* self.tools_info[tool_name]["server"]
ServerOf(ti, tool_name) == ti[CHOOSE n \in DOMAIN ti : ti[n].name = tool_name].server

\* A close whose loop has no try/except: the first failing __aexit__ ends it,
\* the exception leaves close, and lines 186-187 are not reached
close_propagating(cl, init, closes) ==
    LET failing == {n \in DOMAIN cl : ~closes[cl[n]]}
    IN IF failing = {}
       THEN [attempted |-> cl, raised |-> FALSE, clients |-> <<>>, initialized |-> FALSE]
       ELSE [attempted |-> SubSeq(cl, 1, CHOOSE n \in failing : \A m \in failing : n <= m),
             raised |-> TRUE, clients |-> cl, initialized |-> init]

\* close (lines 178-187) when client.__aexit__ of server s succeeds iff
\* closes[s]: every client is closed in turn, a failure is logged, and the
\* dict is cleared.  attempted: the servers whose __aexit__ was called
close(cl, init, closes) ==
    [attempted |-> cl, raised |-> FALSE, clients |-> <<>>, initialized |-> FALSE]

\* What the last call of a ConnectionManager method saw. op: the method; ran:
\* an initialize went past the early return of line 54; connects, lists: what
\* the transports answered to the initialize that made the present connections
\* (forgotten at close); closes, closed, raised: what __aexit__ answered to a
\* close, the clients it was called on, and whether close raised; call: the
\* tool, the outcome and the server reached by a call_tool
NotAsked == [asked |-> FALSE, ok |-> FALSE, tools |-> <<>>]
Asked(listing) == [asked |-> TRUE, ok |-> listing.ok, tools |-> listing.tools]

\* The observation of a manager no method of which has been called
NoCall ==
    [op |-> "none", ran |-> FALSE,
     connects |-> [sv \in Range(Servers) |-> FALSE],
     lists |-> [sv \in Range(Servers) |-> NotAsked],
     closes |-> [sv \in Range(Servers) |-> FALSE],
     closed |-> <<>>, raised |-> FALSE,
     call |-> [tool |-> "", raised |-> FALSE, text |-> <<>>, server |-> "none"]]

-----------------------------------------------------------------------------
(* Text that may hold surrogate code units: utils.py *)

\* A text is a sequence of chunks; a chunk is a run of characters that cp932
\* has (ASCII, the Japanese literals of the source), or one character that
\* cp932 lacks, or one surrogate code unit (U+D800..U+DFFF) written as one of
\* these two
HighSurrogate == "\\uD83D"
LowSurrogate == "\\uDE00"
IsSurrogate(chunk) == chunk \in {HighSurrogate, LowSurrogate}

\* One character that the cp932 codec cannot encode, and is no surrogate
NotInCp932 == "\\u00E9"
InCp932(chunk) == ~IsSurrogate(chunk) /\ chunk # NotInCp932

Platforms == {"linux", "win32"}

\* safe_str: on win32 the text goes through cp932 with errors='replace', which
\* turns every character the codec lacks into "?" (lines 22-26); elsewhere
\* every surrogate code unit becomes "?" (lines 27-30)
safe_str(text) ==
    IF platform = "win32"
    THEN [n \in DOMAIN text |-> IF InCp932(text[n]) THEN text[n] ELSE "?"]
    ELSE [n \in DOMAIN text |-> IF IsSurrogate(text[n]) THEN "?" ELSE text[n]]

-----------------------------------------------------------------------------
(* LLMInterface: llm_interface.py *)

Dict(type, resp, clarification, reason) ==
    [k |-> "dict", type |-> type, response |-> resp,
     clarification |-> clarification, reason |-> reason]

\* The dict returned when classification fails (line 82)
ClassificationErrorVerdict ==
    Dict(Str("TOOL"), Absent, Absent, Str("default choice after a classification error"))

\* What _call_llm can give determine_execution_type: an exception, text that
\* is not JSON, or JSON text (val is what json.loads makes of it)
ClarificationValues ==
    {Absent,
     [k |-> "dict", question |-> Str("which table?")],
     [k |-> "dict", question |-> Absent],
     Str("which table?")}

ClassifyBackend ==
    {[k |-> "error"], [k |-> "text"], [k |-> "json", val |-> Num]}
    \cup {[k |-> "json", val |-> Dict(t, r, c, Absent)] :
             t \in {Absent, Str("NO_TOOL"), Str("CLARIFICATION"), Str("TOOL"), Str("OTHER"), Num},
             r \in {Absent, Str("direct answer"), Num},
             c \in ClarificationValues}

\* A determine_execution_type without lines 73-74: the parsed object is
\* returned with the type the backend gave
determine_execution_type_as_given(b) ==
    IF b.k = "error" THEN ClassificationErrorVerdict
    ELSE IF b.k = "text" THEN ClassificationErrorVerdict
    ELSE IF b.val.k # "dict" THEN ClassificationErrorVerdict
    ELSE b.val

determine_execution_type(b) ==
    IF b.k = "error" THEN ClassificationErrorVerdict           \* except Exception
    ELSE IF b.k = "text" THEN ClassificationErrorVerdict       \* json.loads raises
    ELSE IF b.val.k # "dict" THEN ClassificationErrorVerdict   \* result.get raises
    ELSE IF b.val.type \notin {Str("NO_TOOL"), Str("CLARIFICATION")}
         THEN [b.val EXCEPT !.type = Str("TOOL")]
         ELSE b.val

\* The entries a task list of the LLM is made of: task objects, and a value
\* that is no object
TaskEntry(tool, description) == [k |-> "dict", tool |-> tool, description |-> description]

TaskEntries ==
    {TaskEntry(Str("list_tables"), Str("show the tables")),
     TaskEntry(Str("no_such_tool"), Absent),
     Num}

RECURSIVE SeqsUpTo(_, _)
SeqsUpTo(S, n) ==
    IF n = 0 THEN {<<>>}
    ELSE LET shorter == SeqsUpTo(S, n - 1)
         IN shorter \cup {Append(sq, x) : sq \in shorter, x \in S}

TaskLists == SeqsUpTo(TaskEntries, MaxTasks)

\* What _call_llm can give generate_task_list: an exception, or a content of
\* which whole is what json.loads(content) gives ("invalid" when it raises)
\* and fence what the first ```json block holds ("none" when there is none)
JsonList(items) == [k |-> "list", items |-> items]
Invalid == [k |-> "invalid"]
NoFence == [k |-> "none"]

PlanBackend ==
    {[k |-> "error"]}
    \cup {[k |-> "content", whole |-> JsonList(tl), fence |-> NoFence] : tl \in TaskLists}
    \cup {[k |-> "content", whole |-> w, fence |-> f] :
             w \in {Invalid, Num},
             f \in {NoFence, Invalid, Num} \cup {JsonList(tl) : tl \in TaskLists}}

\* A generate_task_list without lines 121-125: no fenced block is looked for
generate_task_list_whole_only(b) ==
    IF b.k = "error" THEN <<>>
    ELSE IF b.whole.k = "list" THEN b.whole.items
    ELSE <<>>

generate_task_list(b) ==
    IF b.k = "error" THEN <<>>                                 \* outer except
    ELSE IF b.whole.k = "list" THEN b.whole.items
    ELSE IF b.fence.k = "none" THEN <<>>
    ELSE IF b.fence.k = "invalid" THEN <<>>                    \* json.loads raises: outer except
    ELSE IF b.fence.k = "list" THEN b.fence.items
    ELSE <<>>

\* The fixed text of line 155, before the error's message
ApologyPrefix == "execution finished, but interpreting the results failed: "

InterpretBackend == {[k |-> "ok", text |-> "the answer"], [k |-> "error", message |-> "llm down"]}

\* An interpret_results whose apology leaves the error's message out
interpret_results_bare_apology(b) ==
    IF b.k = "ok" THEN Str(b.text) ELSE Str(ApologyPrefix)

interpret_results(b) ==
    IF b.k = "ok" THEN Str(b.text) ELSE Str(ApologyPrefix \o b.message)

-----------------------------------------------------------------------------
(* ConnectionManager.call_tool: connection_manager.py lines 117-140 *)

UnknownToolMsg == "unknown tool: "                  \* line 119
NotConnectedMsg == "not connected to server: "      \* line 124
ToolErrorMsg == "tool execution error: "            \* line 140

\* What client.call_tool of a connected server can do: answer with content
\* items (each with a text), or raise
RemoteOutcomes ==
    {[k |-> "ok", content |-> << <<"4">>, <<"rows ", HighSurrogate>> >>],
     [k |-> "fail", error |-> <<"timeout ", LowSurrogate>>]}

\* A call_tool that returns None for a tool it does not know, where line 119 raises
call_tool_unknown_returns(tool, ti, cl, o) ==
    IF ~(tool.k = "str" /\ tool.v \in ToolNames(ti))
    THEN [raised |-> FALSE, text |-> << <<"None">> >>, server |-> "none"]
    ELSE LET server_name == ServerOf(ti, tool.v)
         IN IF server_name \notin Range(cl)
            THEN [raised |-> TRUE, text |-> <<NotConnectedMsg, server_name>>,
                  server |-> "none"]
            ELSE IF o.k = "ok"
            THEN [raised |-> FALSE,
                  text |-> [n \in DOMAIN o.content |-> safe_str(o.content[n])],
                  server |-> server_name]
            ELSE [raised |-> TRUE,
                  text |-> <<ToolErrorMsg, tool.v, ": ">> \o safe_str(o.error),
                  server |-> server_name]

\* A call_tool without the check of line 124: the call goes to the owning
\* server, connected or not
call_tool_reconnecting(tool, ti, cl, o) ==
    IF ~(tool.k = "str" /\ tool.v \in ToolNames(ti))
    THEN [raised |-> TRUE, text |-> <<UnknownToolMsg, tool.v>>, server |-> "none"]
    ELSE LET server_name == ServerOf(ti, tool.v)
         IN IF o.k = "ok"
            THEN [raised |-> FALSE,
                  text |-> [n \in DOMAIN o.content |-> safe_str(o.content[n])],
                  server |-> server_name]
            ELSE [raised |-> TRUE,
                  text |-> <<ToolErrorMsg, tool.v, ": ">> \o safe_str(o.error),
                  server |-> server_name]

\* call_tool(tool_name, arguments) when the remote call, if made, ends as o.
\* raised: it raises; text: the exception's message, or the texts of the
\* content items of the result; server: the server the remote call went to,
\* "none" when no remote call was made
call_tool(tool, ti, cl, o) ==
    IF ~(tool.k = "str" /\ tool.v \in ToolNames(ti))
    THEN [raised |-> TRUE, text |-> <<UnknownToolMsg, tool.v>>, server |-> "none"]
    ELSE LET server_name == ServerOf(ti, tool.v)
         IN IF server_name \notin Range(cl)
            THEN [raised |-> TRUE, text |-> <<NotConnectedMsg, server_name>>,
                  server |-> "none"]
            ELSE IF o.k = "ok"
            THEN [raised |-> FALSE,
                  text |-> [n \in DOMAIN o.content |-> safe_str(o.content[n])],
                  server |-> server_name]
            ELSE [raised |-> TRUE,
                  text |-> <<ToolErrorMsg, tool.v, ": ">> \o safe_str(o.error),
                  server |-> server_name]

-----------------------------------------------------------------------------
(* MCPAgent: mcp_agent.py *)

DisplayLen == 150          \* line 174
DefaultMaxEntries == 10    \* line 167

LongQuery == "a query of 151 characters"
Queries == {"", LongQuery}

\* len(s) > 150, for the strings of the model
Long(s) == s = LongQuery

NoTaskListMsg == "could not produce a task list"    \* line 101
NeedMoreInfoMsg == "more information is needed"     \* line 88
ErrorPrefix == "error: "                            \* line 160

\* list[-n:] for n > 0
LastN(seq, n) ==
    IF Len(seq) <= n THEN seq ELSE SubSeq(seq, Len(seq) - n + 1, Len(seq))

\* One line of _get_recent_context: the role label and the content, cut to its
\* first 150 characters and marked "..." when it is longer
ContextLine(entry) ==
    [role |-> IF entry.role = "user" THEN "User" ELSE "Assistant",
     content |-> entry.content.v,
     kept |-> IF Long(entry.content.v) THEN DisplayLen ELSE 0,
     marker |-> IF Long(entry.content.v) THEN "..." ELSE ""]

\* _get_recent_context(max_entries): len() of a content that is no string
\* raises TypeError
_get_recent_context(history, max_entries) ==
    LET recent == LastN(history, max_entries)
    IN IF \E n \in DOMAIN recent : recent[n].content.k # "str"
       THEN [raised |-> TRUE, lines |-> <<>>]
       ELSE [raised |-> FALSE, lines |-> [n \in DOMAIN recent |-> ContextLine(recent[n])]]

Exc(name) == [k |-> "exc", v |-> name]

UserTurns(history) == Cardinality({n \in DOMAIN history : history[n].role = "user"})

\* No tool output seen yet
NoText == [op |-> "none"]

\* The callers that await process_request on the one agent, and a caller that
\* has no call running
Callers == {"c1", "c2"}
IdleCall ==
    [pc |-> "idle", user_query |-> "", user_at |-> 0, context |-> <<>>,
     task_list |-> <<>>, step |-> 0, results |-> <<>>]

\* What an awaited transport call does: return, raise, or never complete
Awaited == {"ok", "fail", "never"}

\* No initialize is running
NotInitializing ==
    [pc |-> "idle", todo |-> <<>>,
     connect |-> [sv \in Range(Servers) |-> "ok"],
     list |-> [sv \in Range(Servers) |-> "ok"]]

\* The agent after MCPAgent.__init__
Constructed ==
    /\ config \in Configs
    /\ clients = <<>>
    /\ tools_info = <<>>
    /\ initialized = FALSE
    /\ conversation_history = <<>>
    /\ pc = "idle"
    /\ user_query = ""
    /\ context = <<>>
    /\ verdict = ""
    /\ planned = FALSE
    /\ task_list = <<>>
    /\ step = 0
    /\ results = <<>>
    /\ invoked = <<>>
    /\ interpreted = <<>>
    /\ response = Absent
    /\ cm_last = NoCall
    /\ llm_call = [op |-> "none"]
    /\ text_call = NoText
    /\ calls = [c \in Callers |-> IdleCall]
    /\ init_run = NotInitializing

Init ==
    /\ Constructed
    /\ platform = "linux"

\* An initialize without the early return of lines 54-56
initialize_again(connects, lists) ==
    LET cl == _connect_all_servers(clients, Servers, connects)
    IN /\ clients' = cl
       /\ tools_info' = _collect_tools_info(tools_info, cl, lists)
       /\ initialized' = TRUE

\* ConnectionManager.initialize (lines 53-66), connects[s] telling whether the
\* transport of server s connects and lists[s] what its list_tools answers
initialize(connects, lists) ==
    IF initialized
    THEN UNCHANGED cmVars
    ELSE LET cl == _connect_all_servers(clients, Servers, connects)
         IN /\ clients' = cl
            /\ tools_info' = _collect_tools_info(tools_info, cl, lists)
            /\ initialized' = TRUE

\* initialize, called by MCPAgent.initialize
Initialize ==
    /\ pc = "idle"
    /\ \E connects \in [Range(Servers) -> BOOLEAN],
          lists \in [Range(Servers) -> UNION {Listings(sv) : sv \in Range(Servers)}] :
         /\ \A sv \in Range(Servers) : lists[sv] \in Listings(sv)
         /\ initialize(connects, lists)
    /\ UNCHANGED <<config, conversation_history, pc>>
    /\ UNCHANGED extVars
    /\ UNCHANGED turnVars
    /\ UNCHANGED obsVars

\* close, called by MCPAgent.close
Close ==
    /\ pc = "idle"
    /\ \E closes \in [Range(Servers) -> BOOLEAN] :
         LET r == close(clients, initialized, closes)
         IN /\ clients' = r.clients
            /\ initialized' = r.initialized
    /\ UNCHANGED <<config, tools_info, conversation_history, pc>>
    /\ UNCHANGED extVars
    /\ UNCHANGED turnVars
    /\ UNCHANGED obsVars

\* process_request, lines 59-72: up to the await of determine_execution_type
ProcessRequest ==
    /\ pc = "idle"
    /\ UserTurns(conversation_history) < MaxTurns
    /\ \E q \in Queries :
         LET history == Append(conversation_history, [role |-> "user", content |-> Str(q)])
             ctx == _get_recent_context(history, DefaultMaxEntries)
         IN /\ conversation_history' = history
            /\ user_query' = q
            /\ IF ctx.raised
               THEN /\ pc' = "raised"
                    /\ response' = Exc("TypeError")
                    /\ context' = <<>>
               ELSE /\ pc' = "classifying"
                    /\ response' = Absent
                    /\ context' = ctx.lines
    /\ verdict' = ""
    /\ planned' = FALSE
    /\ task_list' = <<>>
    /\ step' = 0
    /\ results' = <<>>
    /\ invoked' = <<>>
    /\ interpreted' = <<>>
    /\ UNCHANGED <<config, clients, tools_info, initialized>>
    /\ UNCHANGED extVars
    /\ UNCHANGED obsVars

\* The end of a turn that answers: the response is appended to the history
\* and returned
Respond(r) ==
    /\ conversation_history' =
         Append(conversation_history, [role |-> "assistant", content |-> r])
    /\ response' = r
    /\ pc' = "responding"

\* The end of a turn that raises
Raise(name) ==
    /\ response' = Exc(name)
    /\ pc' = "raised"
    /\ UNCHANGED conversation_history

IsNoTool(exec_type) == exec_type = Str("NO_TOOL")               \* line 77

\* A process_request without the CLARIFICATION branch
IsClarificationDropped(exec_type) == FALSE

IsClarification(exec_type) == exec_type = Str("CLARIFICATION")  \* line 86

\* process_request, lines 70-98: determine_execution_type returns, and the
\* branch on its type up to a return or the await of generate_task_list
Classify ==
    /\ pc = "classifying"
    /\ \E b \in ClassifyBackend :
         LET execution_type == determine_execution_type(b)
             exec_type == Get(execution_type.type, Str("TOOL"))
         IN /\ verdict' = exec_type.v
            /\ IF IsNoTool(exec_type)
               THEN Respond(Get(execution_type.response, Str("")))
               ELSE IF IsClarification(exec_type)
               THEN LET clarification ==
                          Get(execution_type.clarification, [k |-> "dict", question |-> Absent])
                    IN IF clarification.k # "dict"
                       THEN Raise("AttributeError")     \* clarification.get
                       ELSE Respond(Get(clarification.question,
                                        Get(execution_type.response, Str(NeedMoreInfoMsg))))
               ELSE /\ pc' = "planning"
                    /\ UNCHANGED <<conversation_history, response>>
    /\ UNCHANGED <<config, clients, tools_info, initialized, user_query, context,
                   planned, task_list, step, results, invoked, interpreted>>
    /\ UNCHANGED extVars
    /\ UNCHANGED obsVars

\* The test of line 100 written as "task_list is None", which no list passes
NoTasksIsNone(tl) == FALSE

\* not task_list (line 100)
NoTasks(tl) == tl = <<>>

\* process_request, lines 96-109: generate_task_list returns, and either the
\* fixed response or the start of _execute_tasks
Plan ==
    /\ pc = "planning"
    /\ planned' = TRUE
    /\ \E b \in PlanBackend :
         LET tl == generate_task_list(b)
         IN /\ task_list' = tl
            /\ IF NoTasks(tl)
               THEN /\ Respond(Str(NoTaskListMsg))
                    /\ step' = 0
               ELSE /\ step' = 1
                    /\ pc' = IF Len(tl) = 0 THEN "interpreting" ELSE "executing"
                    /\ UNCHANGED <<conversation_history, response>>
    /\ UNCHANGED <<config, clients, tools_info, initialized, user_query, context,
                   verdict, results, invoked, interpreted>>
    /\ UNCHANGED extVars
    /\ UNCHANGED obsVars

RECURSIVE Concat(_)
Concat(texts) == IF texts = <<>> THEN <<>> ELSE Head(texts) \o Concat(Tail(texts))

\* results.insert(0, ...) in place of results.append(...)
RecordResultInFront(res, r) == <<r>> \o res

\* results.append(...) (lines 146 and 157)
RecordResult(res, r) == Append(res, r)

\* The TaskResult of a call_tool invocation that ended as r: the try branch
\* (lines 139-151) or the except branch (lines 155-162)
TaskResult(tool, description, r) ==
    IF r.raised
    THEN [tool |-> tool, description |-> description,
          result |-> <<ErrorPrefix>> \o safe_str(r.text), success |-> FALSE]
    ELSE [tool |-> tool, description |-> description,
          result |-> safe_str(Concat(r.text)), success |-> TRUE]

\* _execute_tasks, lines 127-165: one iteration of the loop, around the await
\* of call_tool; after the last one, up to the await of interpret_results
ExecuteTask ==
    /\ pc = "executing"
    /\ step \in DOMAIN task_list
    /\ LET task == task_list[step]
       IN IF task.k # "dict"
          THEN /\ Raise("AttributeError")      \* task.get
               /\ UNCHANGED <<step, results, invoked>>
          ELSE \E o \in RemoteOutcomes :
                 LET tool == Get(task.tool, Str(""))
                     description == Get(task.description, tool)
                     r == call_tool(tool, tools_info, clients, o)
                 IN /\ invoked' = Append(invoked, [task |-> step, tool |-> tool,
                                                   server |-> r.server])
                    /\ results' = RecordResult(results, TaskResult(tool, description, r))
                    /\ step' = step + 1
                    /\ pc' = IF step = Len(task_list) THEN "interpreting" ELSE "executing"
                    /\ UNCHANGED <<conversation_history, response>>
    /\ UNCHANGED <<config, clients, tools_info, initialized, user_query, context,
                   verdict, planned, task_list, interpreted>>
    /\ UNCHANGED extVars
    /\ UNCHANGED obsVars

\* process_request, lines 112-121: interpret_results returns
Interpret ==
    /\ pc = "interpreting"
    /\ interpreted' = Append(interpreted, results)
    /\ \E b \in InterpretBackend : Respond(interpret_results(b))
    /\ UNCHANGED <<config, clients, tools_info, initialized, user_query, context,
                   verdict, planned, task_list, step, results, invoked>>
    /\ UNCHANGED extVars
    /\ UNCHANGED obsVars

\* The caller has the response (or the exception); the locals of the call are gone
Return ==
    /\ pc \in {"responding", "raised"}
    /\ pc' = "idle"
    /\ user_query' = ""
    /\ context' = <<>>
    /\ verdict' = ""
    /\ planned' = FALSE
    /\ task_list' = <<>>
    /\ step' = 0
    /\ results' = <<>>
    /\ invoked' = <<>>
    /\ interpreted' = <<>>
    /\ response' = Absent
    /\ UNCHANGED <<config, clients, tools_info, initialized, conversation_history>>
    /\ UNCHANGED extVars
    /\ UNCHANGED obsVars

-----------------------------------------------------------------------------
(* The ConnectionManager on its own: initialize, close and call_tool called in
   any order, with what the transports answered kept in cm_last *)

CMInitialize ==
    /\ \E connects \in [Range(Servers) -> BOOLEAN],
          lists \in [Range(Servers) -> UNION {ChangingListings(sv) : sv \in Range(Servers)}] :
         /\ \A sv \in Range(Servers) : lists[sv] \in ChangingListings(sv)
         /\ initialize(connects, lists)
         /\ cm_last' =
              IF initialized
              THEN [NoCall EXCEPT !.op = "initialize", !.connects = cm_last.connects,
                                  !.lists = cm_last.lists]
              ELSE [NoCall EXCEPT
                      !.op = "initialize", !.ran = TRUE, !.connects = connects,
                      !.lists = [sv \in Range(Servers) |->
                                   IF connects[sv] THEN Asked(lists[sv]) ELSE NotAsked]]
    /\ UNCHANGED <<config, conversation_history, pc, llm_call>>
    /\ UNCHANGED extVars
    /\ UNCHANGED turnVars

CMClose ==
    /\ \E closes \in [Range(Servers) -> BOOLEAN] :
         LET r == close(clients, initialized, closes)
         IN /\ clients' = r.clients
            /\ initialized' = r.initialized
            /\ cm_last' = [NoCall EXCEPT
                             !.op = "close",
                             !.closes = [sv \in Range(Servers) |->
                                           sv \in Range(clients) /\ closes[sv]],
                             !.closed = r.attempted, !.raised = r.raised]
    /\ UNCHANGED <<config, tools_info, conversation_history, pc, llm_call>>
    /\ UNCHANGED extVars
    /\ UNCHANGED turnVars

\* The tool names call_tool is called with
CalledTools == {"list_tables", "execute_safe_query", "no_such_tool"}

CMCallTool ==
    /\ \E tool_name \in CalledTools, o \in RemoteOutcomes :
         LET r == call_tool(Str(tool_name), tools_info, clients, o)
         IN cm_last' = [NoCall EXCEPT
                          !.op = "call_tool", !.connects = cm_last.connects,
                          !.lists = cm_last.lists,
                          !.call = [tool |-> tool_name, raised |-> r.raised,
                                    text |-> r.text, server |-> r.server]]
    /\ UNCHANGED <<config, conversation_history, pc, llm_call>>
    /\ UNCHANGED extVars
    /\ UNCHANGED cmVars
    /\ UNCHANGED turnVars

CMNext ==
    \/ CMInitialize
    \/ CMClose
    \/ CMCallTool

SpecCM == Init /\ [][CMNext]_vars

-----------------------------------------------------------------------------
(* The LLMInterface on its own: each method called with every answer of the
   backend, the answer and the result kept in llm_call *)

CallClassify ==
    /\ \E b \in ClassifyBackend :
         llm_call' = [op |-> "determine_execution_type", backend |-> b,
                      result |-> determine_execution_type(b)]
    /\ UNCHANGED <<config, conversation_history, pc, cm_last>>
    /\ UNCHANGED extVars
    /\ UNCHANGED cmVars
    /\ UNCHANGED turnVars

CallPlan ==
    /\ \E b \in PlanBackend :
         llm_call' = [op |-> "generate_task_list", backend |-> b,
                      result |-> generate_task_list(b)]
    /\ UNCHANGED <<config, conversation_history, pc, cm_last>>
    /\ UNCHANGED extVars
    /\ UNCHANGED cmVars
    /\ UNCHANGED turnVars

CallInterpret ==
    /\ \E b \in InterpretBackend :
         llm_call' = [op |-> "interpret_results", backend |-> b,
                      result |-> interpret_results(b)]
    /\ UNCHANGED <<config, conversation_history, pc, cm_last>>
    /\ UNCHANGED extVars
    /\ UNCHANGED cmVars
    /\ UNCHANGED turnVars

LLMNext ==
    \/ CallClassify
    \/ CallPlan
    \/ CallInterpret

SpecLLM == Init /\ [][LLMNext]_vars

-----------------------------------------------------------------------------
(* Tool output on its way to the caller, on either platform: call_tool and the
   TaskResult _execute_tasks makes of what it returns or raises *)

InitText ==
    /\ Constructed
    /\ platform \in Platforms

\* What client.call_tool can answer or raise, with text of every kind of chunk
TextOutcomes ==
    RemoteOutcomes
    \cup {[k |-> "ok",
           content |-> << <<"caf", NotInCp932>>, <<HighSurrogate, " rows ", LowSurrogate>> >>],
          [k |-> "fail", error |-> <<"na", NotInCp932, "ve ", HighSurrogate>>]}

\* One iteration of _execute_tasks (lines 127-162) for a task naming the tool,
\* the remote call ending as o
TextCallTool ==
    /\ \E tool_name \in CalledTools, o \in TextOutcomes :
         LET r == call_tool(Str(tool_name), tools_info, clients, o)
         IN text_call' =
              [op |-> "call_tool", tool |-> tool_name, outcome |-> o,
               remote |-> r.server # "none", raised |-> r.raised, returned |-> r.text,
               recorded |-> TaskResult(Str(tool_name), Str(tool_name), r).result]
    /\ UNCHANGED <<platform, config, conversation_history, pc, calls, init_run>>
    /\ UNCHANGED cmVars
    /\ UNCHANGED turnVars
    /\ UNCHANGED obsVars

TextNext ==
    \/ CMInitialize
    \/ TextCallTool

SpecText == InitText /\ [][TextNext]_vars

-----------------------------------------------------------------------------
(* process_request awaited by two callers on the same agent.  asyncio runs a
   coroutine without interruption from one await to the next, so each action
   is the code between two awaits of one call; nothing in the code holds a
   second call back while a first one is suspended *)

\* What the LLM answers to the calls of this specification
ConcClassifyBackend ==
    {[k |-> "error"],
     [k |-> "json", val |-> Dict(Str("NO_TOOL"), Str("direct answer"), Absent, Absent)],
     [k |-> "json", val |-> Dict(Str("CLARIFICATION"), Absent,
                                 [k |-> "dict", question |-> Str("which table?")], Absent)]}

ConcPlanBackend ==
    {[k |-> "error"]}
    \cup {[k |-> "content", whole |-> JsonList(tl), fence |-> NoFence] :
             tl \in SeqsUpTo({TaskEntry(Str("list_tables"), Str("show the tables"))}, MaxTasks)}

\* The call of the caller appends its response to the history and returns
ConcRespond(c, r) ==
    /\ conversation_history' =
         Append(conversation_history, [role |-> "assistant", content |-> r])
    /\ calls' = [calls EXCEPT ![c] = IdleCall]

ConcUnchanged ==
    /\ UNCHANGED <<platform, config, pc, text_call, init_run>>
    /\ UNCHANGED cmVars
    /\ UNCHANGED turnVars
    /\ UNCHANGED obsVars

\* process_request, lines 59-72, up to the await of determine_execution_type
ConcStart(c) ==
    /\ calls[c].pc = "idle"
    /\ UserTurns(conversation_history) < MaxTurns
    /\ \E q \in Queries :
         LET history == Append(conversation_history, [role |-> "user", content |-> Str(q)])
             ctx == _get_recent_context(history, DefaultMaxEntries)
         IN /\ conversation_history' = history
            /\ calls' = IF ctx.raised
                         THEN calls
                         ELSE [calls EXCEPT ![c] =
                                 [IdleCall EXCEPT !.pc = "classifying", !.user_query = q,
                                                  !.user_at = Len(history),
                                                  !.context = ctx.lines]]
    /\ ConcUnchanged

\* lines 70-98: determine_execution_type returns
ConcClassify(c) ==
    /\ calls[c].pc = "classifying"
    /\ \E b \in ConcClassifyBackend :
         LET execution_type == determine_execution_type(b)
             exec_type == Get(execution_type.type, Str("TOOL"))
         IN IF IsNoTool(exec_type)
            THEN ConcRespond(c, Get(execution_type.response, Str("")))
            ELSE IF IsClarification(exec_type)
            THEN ConcRespond(c, Get(execution_type.clarification.question,
                                    Get(execution_type.response, Str(NeedMoreInfoMsg))))
            ELSE /\ calls' = [calls EXCEPT ![c].pc = "planning"]
                 /\ UNCHANGED conversation_history
    /\ ConcUnchanged

\* lines 96-109: generate_task_list returns
ConcPlan(c) ==
    /\ calls[c].pc = "planning"
    /\ \E b \in ConcPlanBackend :
         LET tl == generate_task_list(b)
         IN IF NoTasks(tl)
            THEN ConcRespond(c, Str(NoTaskListMsg))
            ELSE /\ calls' = [calls EXCEPT ![c].pc = "executing", ![c].task_list = tl,
                                           ![c].step = 1]
                 /\ UNCHANGED conversation_history
    /\ ConcUnchanged

\* _execute_tasks, lines 127-165: one iteration of the loop
ConcExecuteTask(c) ==
    /\ calls[c].pc = "executing"
    /\ \E o \in RemoteOutcomes :
         LET task == calls[c].task_list[calls[c].step]
             tool == Get(task.tool, Str(""))
             r == call_tool(tool, tools_info, clients, o)
         IN calls' = [calls EXCEPT
                        ![c].results = RecordResult(@, TaskResult(tool, Get(task.description, tool), r)),
                        ![c].step = @ + 1,
                        ![c].pc = IF calls[c].step = Len(calls[c].task_list)
                                  THEN "interpreting" ELSE "executing"]
    /\ UNCHANGED conversation_history
    /\ ConcUnchanged

\* lines 112-121: interpret_results returns
ConcInterpret(c) ==
    /\ calls[c].pc = "interpreting"
    /\ \E b \in InterpretBackend : ConcRespond(c, interpret_results(b))
    /\ ConcUnchanged

ConcNext ==
    \E c \in Callers :
        \/ ConcStart(c)
        \/ ConcClassify(c)
        \/ ConcPlan(c)
        \/ ConcExecuteTask(c)
        \/ ConcInterpret(c)

SpecConc == Init /\ [][ConcNext]_vars

-----------------------------------------------------------------------------
(* initialize as the coroutine it is: _connect_all_servers awaits each
   client.__aenter__ in turn, then _collect_tools_info awaits each
   client.list_tools in turn; no await has a timeout, so the loop stands at a
   call that never completes *)

InitUnchanged ==
    /\ UNCHANGED <<platform, config, conversation_history, pc, text_call, calls>>
    /\ UNCHANGED turnVars
    /\ UNCHANGED obsVars

\* initialize, lines 53-63, up to the first await client.__aenter__
InitBegin ==
    /\ init_run.pc = "idle"
    /\ ~initialized
    /\ \E connect \in [Range(Servers) -> Awaited], list \in [Range(Servers) -> Awaited] :
         init_run' = [pc |-> "connecting", todo |-> Servers,
                      connect |-> connect, list |-> list]
    /\ UNCHANGED cmVars
    /\ InitUnchanged

\* The end of initialize, lines 66-71
InitEnd(cl, ti) ==
    /\ clients' = cl
    /\ tools_info' = ti
    /\ initialized' = TRUE
    /\ init_run' = [init_run EXCEPT !.pc = "done", !.todo = <<>>]

\* _connect_all_servers, lines 76-91: the awaited __aenter__ returns or raises
ConnectCompletes ==
    /\ init_run.pc = "connecting"
    /\ init_run.connect[Head(init_run.todo)] # "never"
    /\ LET server_name == Head(init_run.todo)
           cl == IF init_run.connect[server_name] = "ok"
                 THEN Append(clients, server_name)
                 ELSE clients
       IN IF Tail(init_run.todo) # <<>>
          THEN /\ clients' = cl
               /\ init_run' = [init_run EXCEPT !.todo = Tail(@)]
               /\ UNCHANGED <<tools_info, initialized>>
          ELSE IF cl # <<>>
          THEN /\ clients' = cl
               /\ init_run' = [init_run EXCEPT !.pc = "collecting", !.todo = cl]
               /\ UNCHANGED <<tools_info, initialized>>
          ELSE InitEnd(cl, tools_info)
    /\ InitUnchanged

\* _collect_tools_info, lines 97-115: the awaited list_tools returns or raises
ListCompletes ==
    /\ init_run.pc = "collecting"
    /\ init_run.list[Head(init_run.todo)] # "never"
    /\ LET server_name == Head(init_run.todo)
           ti == IF init_run.list[server_name] = "ok"
                 THEN RegisterTools(tools_info, server_name, ListedTools(server_name))
                 ELSE tools_info
       IN IF Tail(init_run.todo) # <<>>
          THEN /\ tools_info' = ti
               /\ init_run' = [init_run EXCEPT !.todo = Tail(@)]
               /\ UNCHANGED <<clients, initialized>>
          ELSE InitEnd(clients, ti)
    /\ InitUnchanged

InitNext ==
    \/ InitBegin
    \/ ConnectCompletes
    \/ ListCompletes

\* The event loop runs a coroutine whose awaited call has completed
SpecInit == Init /\ [][InitNext]_vars /\ WF_vars(InitNext)

-----------------------------------------------------------------------------
(* The request pipeline *)

Next ==
    \/ Initialize
    \/ Close
    \/ ProcessRequest
    \/ Classify
    \/ Plan
    \/ ExecuteTask
    \/ Interpret
    \/ Return

Spec == Init /\ [][Next]_vars

-----------------------------------------------------------------------------
(* Properties *)

InTurn == pc \in {"classifying", "planning", "executing", "interpreting"}

\* The number of call_tool invocations made for task i in this turn
Attempts(i) == Cardinality({n \in DOMAIN invoked : invoked[n].task = i})

\* A remote call was made for task i
RemoteCalled(i) == \E n \in DOMAIN invoked : invoked[n].task = i /\ invoked[n].server # "none"

IsTaskObject(entry) == entry.k = "dict"

Registered(tool) == tool.k = "str" /\ tool.v \in ToolNames(tools_info)

\* C1: process_request never raises, and what it returns is a string,
\* whatever the LLM backend and the tool servers answer.
C1_ReturnsStringNeverRaises ==
    /\ pc # "raised"
    /\ pc = "responding" => response.k = "str"

\* C2: in a turn classified NO_TOOL or CLARIFICATION there is no planning and
\* no call_tool invocation: the turn ends right after the classification.
C2_ShortCircuitInvokesNothing ==
    verdict \in {"NO_TOOL", "CLARIFICATION"} =>
        /\ ~planned
        /\ task_list = <<>>
        /\ invoked = <<>>
        /\ interpreted = <<>>
        /\ pc \in {"responding", "raised"}

C2_Witness ==
    /\ pc = "responding"
    /\ verdict = "CLARIFICATION"
    /\ response = Str("which table?")
    /\ tools_info # <<>>
    /\ clients # <<>>

\* C3: in a tool-required turn whose task list comes back empty, the response
\* is the fixed message, it is what the history ends with, call_tool is never
\* invoked and interpret_results is not called.
C3_EmptyPlanFixedMessage ==
    (planned /\ task_list = <<>>) =>
        /\ pc = "responding"
        /\ verdict = "TOOL"
        /\ response = Str(NoTaskListMsg)
        /\ conversation_history # <<>>
        /\ conversation_history[Len(conversation_history)] =
             [role |-> "assistant", content |-> Str(NoTaskListMsg)]
        /\ invoked = <<>>
        /\ interpreted = <<>>

C3_Witness ==
    /\ planned
    /\ task_list = <<>>
    /\ pc = "responding"
    /\ tools_info # <<>>
    /\ clients # <<>>

\* C4: a task whose remote invocation failed has been attempted exactly
\* max_retries times when its failed TaskResult is recorded, and a task that
\* succeeded took at least one and at most max_retries attempts.
C4_FailedTaskAttemptedMaxRetries ==
    \A i \in DOMAIN results :
        /\ (~results[i].success /\ RemoteCalled(i)) => Attempts(i) = config.max_retries
        /\ results[i].success => (Attempts(i) >= 1 /\ Attempts(i) <= config.max_retries)

\* C5: with fallback_enabled false, no task that follows a task whose remote
\* invocation failed is invoked (the tasks after it are recorded as skipped);
\* with fallback_enabled true the tasks after a failed one are still invoked.
C5_FallbackDisabledAbortsBatch ==
    /\ ~config.fallback_enabled =>
         \A n \in DOMAIN invoked :
            \A i \in DOMAIN results :
               (i < invoked[n].task /\ RemoteCalled(i)) => results[i].success
    /\ (config.fallback_enabled /\ pc = "interpreting") =>
         \A i \in DOMAIN task_list : Attempts(i) >= 1

\* C6: the tasks are invoked one at a time in list order, result i is the
\* result of task i (its tool and its description), a list of task objects
\* never makes the execution raise, and interpret_results is called once,
\* with one result per planned task.
C6_OneResultPerTaskInOrder ==
    /\ Len(results) <= Len(task_list)
    /\ Len(invoked) = Len(results)
    /\ \A n \in DOMAIN invoked : invoked[n].task = n
    /\ \A i \in DOMAIN results :
         /\ IsTaskObject(task_list[i])
         /\ results[i].tool = Get(task_list[i].tool, Str(""))
         /\ results[i].description = Get(task_list[i].description, results[i].tool)
    /\ pc = "executing" => step = Len(results) + 1
    /\ (pc = "raised" /\ planned) => \E i \in DOMAIN task_list : ~IsTaskObject(task_list[i])
    /\ pc = "interpreting" => Len(results) = Len(task_list)
    /\ Len(interpreted) <= 1
    /\ \A n \in DOMAIN interpreted :
         interpreted[n] = results /\ Len(results) = Len(task_list)

C6_Witness ==
    /\ pc = "responding"
    /\ Len(interpreted) = 1
    /\ Len(interpreted[1]) = 2
    /\ interpreted[1][1].tool = Str("no_such_tool")
    /\ ~interpreted[1][1].success
    /\ interpreted[1][2].tool = Str("list_tables")
    /\ interpreted[1][2].success

\* C7: a task whose tool is not in the registry gets a failed result that
\* carries the unknown-tool message, no remote call is made for it, and the
\* tasks after it are still executed.
C7_UnknownToolRecordedAndSkipped ==
    \A i \in DOMAIN results :
        ~Registered(results[i].tool) =>
            /\ ~results[i].success
            /\ results[i].result = <<ErrorPrefix, UnknownToolMsg, results[i].tool.v>>
            /\ Attempts(i) = 1
            /\ ~RemoteCalled(i)
            /\ \A j \in DOMAIN task_list :
                 j > i =>
                    \/ Attempts(j) = 1
                    \/ pc = "executing" /\ step <= j
                    \/ pc = "raised" /\ step <= j /\ ~IsTaskObject(task_list[step])

C7_Witness ==
    /\ pc = "interpreting"
    /\ Len(results) = 2
    /\ results[1].tool = Str("no_such_tool")
    /\ ~results[1].success
    /\ results[2].tool = Str("list_tables")
    /\ results[2].success
    /\ invoked[1].server = "none"
    /\ invoked[2].server # "none"

\* C8: the conversation history never holds more than max_history entries.
C8_HistoryAtMostMaxHistory ==
    Len(conversation_history) <= config.max_history

\* C9: the context of a turn is made of the most recent context_limit entries
\* of the history (the user entry of the turn included), in their order.
C9_ContextIsLastContextLimit ==
    InTurn =>
        /\ Len(context) <= config.context_limit
        /\ context = [n \in DOMAIN LastN(conversation_history, config.context_limit) |->
                        ContextLine(LastN(conversation_history, config.context_limit)[n])]

\* C10: every turn appends the user text and then the response, so between
\* turns the history alternates user / assistant, and the returned string is
\* the content of the last entry.
C10_TwoEntriesPerTurn ==
    /\ \A n \in DOMAIN conversation_history :
         conversation_history[n].role = IF n % 2 = 1 THEN "user" ELSE "assistant"
    /\ pc = "idle" => Len(conversation_history) % 2 = 0
    /\ pc = "responding" =>
         conversation_history[Len(conversation_history)] =
            [role |-> "assistant", content |-> response]

-----------------------------------------------------------------------------
(* The pipeline with awaits that do not come back: the awaited remote call
   never returns, or the task running process_request is cancelled.  The code
   passes no timeout to client.call_tool and never reads
   config.execution.timeout_seconds; asyncio raises CancelledError, which is
   no Exception, at the await the coroutine stands at *)

\* The call_tool awaited at this step of _execute_tasks has reached a server
RemoteOutstanding ==
    /\ pc = "executing"
    /\ step \in DOMAIN task_list
    /\ task_list[step].k = "dict"
    /\ Get(task_list[step].tool, Str("")).k = "str"
    /\ Get(task_list[step].tool, Str("")).v \in ToolNames(tools_info)
    /\ ServerOf(tools_info, Get(task_list[step].tool, Str("")).v) \in Range(clients)

\* client.call_tool (connection_manager.py line 129) never returns: the
\* coroutine stays at the await
ToolNeverReturns ==
    /\ RemoteOutstanding
    /\ pc' = "waiting"
    /\ LET tool == Get(task_list[step].tool, Str(""))
       IN invoked' = Append(invoked, [task |-> step, tool |-> tool,
                                      server |-> ServerOf(tools_info, tool.v)])
    /\ UNCHANGED <<config, conversation_history>>
    /\ UNCHANGED <<user_query, context, verdict, planned, task_list, step, results,
                   interpreted, response>>
    /\ UNCHANGED cmVars
    /\ UNCHANGED obsVars
    /\ UNCHANGED extVars

\* The task is cancelled while it stands at an await of the turn: none of the
\* except Exception clauses catches CancelledError, which leaves process_request
Cancel ==
    /\ \/ pc \in {"classifying", "planning", "interpreting", "waiting"}
       \/ RemoteOutstanding
    /\ Raise("CancelledError")
    /\ UNCHANGED config
    /\ UNCHANGED <<user_query, context, verdict, planned, task_list, step, results,
                   invoked, interpreted>>
    /\ UNCHANGED cmVars
    /\ UNCHANGED obsVars
    /\ UNCHANGED extVars

AwaitNext ==
    \/ Next
    \/ ToolNeverReturns
    \/ Cancel

\* The event loop resumes a turn whose awaited call has returned; callers and
\* cancellation come when they come
SpecAwait ==
    Init /\ [][AwaitNext]_vars
         /\ WF_vars(Classify \/ Plan \/ ExecuteTask \/ Interpret \/ Return)

\* C24: a tool invocation that does not return is, once the configured
\* timeout has passed, taken as a failure of that call: unless the turn is
\* cancelled, a failed TaskResult is recorded for the task and the turn goes
\* on to its response.
C24_TimeoutBecomesFailure ==
    (pc = "waiting") ~>
        \/ pc = "responding" /\ \E n \in DOMAIN results : ~results[n].success
        \/ response = Exc("CancelledError")

\* C25: when the turn is cancelled while a tool invocation is outstanding, a
\* TaskResult is recorded for that task.
C25_CancelledTaskHasResult ==
    (pc = "raised" /\ response = Exc("CancelledError") /\ step \in DOMAIN task_list)
        => Len(results) = step

-----------------------------------------------------------------------------
(* The ConnectionManager claims, checked in SpecCM *)

\* The listing the server gave to the initialize that made the present
\* connections held a tool of that name
ListedBy(server, tool_name) ==
    /\ cm_last.lists[server].ok
    /\ \E t \in Range(cm_last.lists[server].tools) : t.name = tool_name

\* Both servers are connected and both listed the name; B is discovered after A
Collides(tool_name) ==
    /\ initialized
    /\ clients = <<"A", "B">>
    /\ ListedBy("A", tool_name)
    /\ ListedBy("B", tool_name)

\* C11: when two connected servers A and B list a tool of the same name and B
\* is discovered after A, the registry entry of the name is B's (server, schema
\* and description), and a call_tool for the name reaches B's client and no
\* other.
C11_LaterServerOwnsName ==
    \A tool_name \in CalledTools :
        Collides(tool_name) =>
            /\ tool_name \in ToolNames(tools_info)
            /\ ToolInfo(tools_info, tool_name) =
                  [name |-> tool_name, server |-> "B",
                   schema |-> Tool("B", tool_name).inputSchema,
                   description |-> Tool("B", tool_name).description]
            /\ (cm_last.op = "call_tool" /\ cm_last.call.tool = tool_name)
                  => cm_last.call.server = "B"

C11_Witness ==
    /\ Collides("list_tables")
    /\ cm_last.op = "call_tool"
    /\ cm_last.call.tool = "list_tables"
    /\ cm_last.call.server = "B"
    /\ ~cm_last.call.raised

\* An initialize that went past its early return has just returned
InitializeRan == cm_last.op = "initialize" /\ cm_last.ran

\* C12: whatever subset of the configured servers fails to connect, initialize
\* completes (the manager is initialized, nothing is raised) and exactly the
\* servers whose transport connected are registered as connected.
C12_ConnectFailuresIsolated ==
    InitializeRan =>
        /\ initialized
        /\ \A sv \in Range(Servers) : cm_last.connects[sv] <=> sv \in Range(clients)

C12_Witness ==
    /\ InitializeRan
    /\ ~cm_last.connects["A"]
    /\ cm_last.connects["B"]
    /\ clients = <<"B">>
    /\ initialized

\* C13: every entry of the tool registry is owned by a server that is
\* connected now and whose discovery succeeded; close removes the entries of
\* the connections it drops.
C13_RegistryOwnedByConnected ==
    \A n \in DOMAIN tools_info :
        /\ tools_info[n].server \in Range(clients)
        /\ cm_last.lists[tools_info[n].server].ok

\* The last call was a call_tool for a registered tool whose owning server is
\* not connected
CalledDisconnected ==
    /\ cm_last.op = "call_tool"
    /\ cm_last.call.tool \in ToolNames(tools_info)
    /\ ServerOf(tools_info, cm_last.call.tool) \notin Range(clients)

\* C14: a call_tool for a tool whose owning server is not connected raises an
\* error naming that server, makes no remote call and connects nothing: the
\* connections and the initialized flag are what they were before the call.
C14_DisconnectedFailsFast ==
    [][CalledDisconnected' =>
          /\ cm_last'.call.raised
          /\ cm_last'.call.text =
                <<NotConnectedMsg, ServerOf(tools_info, cm_last'.call.tool)>>
          /\ cm_last'.call.server = "none"
          /\ clients' = clients
          /\ initialized' = initialized]_vars

C14_Witness ==
    /\ CalledDisconnected
    /\ cm_last.call.tool = "list_tables"
    /\ cm_last.call.raised
    /\ clients = <<>>
    /\ ~initialized

\* C18: close calls __aexit__ on every connected client, in order, whether or
\* not an earlier one failed; it raises nothing; after it no server is
\* connected and the manager is not initialized.
C18_CloseIsBestEffort ==
    [][cm_last'.op = "close" =>
          /\ cm_last'.closed = clients
          /\ ~cm_last'.raised
          /\ clients' = <<>>
          /\ ~initialized']_vars

C18_Witness ==
    /\ cm_last.op = "close"
    /\ cm_last.closed = <<"A", "B">>
    /\ ~cm_last.closes["A"]
    /\ cm_last.closes["B"]
    /\ ~cm_last.raised
    /\ clients = <<>>
    /\ ~initialized

\* The server connected and its list_tools raised
DiscoveryFailed(server) ==
    /\ cm_last.connects[server]
    /\ cm_last.lists[server].asked
    /\ ~cm_last.lists[server].ok

\* The positions in Servers of the connected servers that listed the name
Discoverers(tool_name) ==
    {n \in DOMAIN Servers : cm_last.connects[Servers[n]] /\ ListedBy(Servers[n], tool_name)}

\* Every name listed by a connected server is registered, to the last of the
\* servers that listed it
OthersDiscovered ==
    \A tool_name \in CalledTools :
        Discoverers(tool_name) # {} =>
            /\ tool_name \in ToolNames(tools_info)
            /\ ServerOf(tools_info, tool_name) =
                  Servers[CHOOSE n \in Discoverers(tool_name) :
                             \A m \in Discoverers(tool_name) : m <= n]

\* C19: in an initialize where list_tools of a connected server fails, that
\* server stays connected, the registry gains or changes no entry of that
\* server, and the tools every other connected server listed are registered.
C19_DiscoveryFailureIsolated ==
    [][InitializeRan' =>
          \A sv \in Range(Servers) :
              DiscoveryFailed(sv)' =>
                  /\ sv \in Range(clients')
                  /\ \A n \in DOMAIN tools_info' :
                        tools_info'[n].server = sv => tools_info'[n] \in Range(tools_info)
                  /\ OthersDiscovered']_vars

C19_Witness ==
    /\ InitializeRan
    /\ DiscoveryFailed("A")
    /\ clients = <<"A", "B">>
    /\ ListedBy("B", "list_tables")
    /\ ToolNames(tools_info) = {"list_tables"}
    /\ ServerOf(tools_info, "list_tables") = "B"

\* C20: registering the tools of a connection replaces what was registered for
\* it before: once initialized, the registry holds no entry of a connected
\* server that is absent from the server's latest discovery (a failed
\* discovery leaves the server with no entry).
C20_RegistrationReplaces ==
    initialized =>
        \A n \in DOMAIN tools_info :
            tools_info[n].server \in Range(clients)
                => ListedBy(tools_info[n].server, tools_info[n].name)

-----------------------------------------------------------------------------
(* The LLMInterface claims, checked in SpecLLM *)

\* The backend answered a JSON object whose 'type' is exactly that string
SaysExactly(b, type) ==
    /\ b.k = "json"
    /\ b.val.k = "dict"
    /\ b.val.type = Str(type)

\* C15: determine_execution_type returns a verdict (it never raises) whose
\* type is NO_TOOL or CLARIFICATION exactly when the backend answered a JSON
\* object saying that, and TOOL in every other case: a failed call, text
\* that is no JSON, JSON that is no object, any other type, no type.
C15_DefaultsToTool ==
    llm_call.op = "determine_execution_type" =>
        /\ llm_call.result.k = "dict"
        /\ llm_call.result.type \in {Str("TOOL"), Str("NO_TOOL"), Str("CLARIFICATION")}
        /\ \A type \in {"NO_TOOL", "CLARIFICATION"} :
              llm_call.result.type = Str(type) <=> SaysExactly(llm_call.backend, type)

C15_Witness ==
    /\ llm_call.op = "determine_execution_type"
    /\ SaysExactly(llm_call.backend, "OTHER")
    /\ llm_call.result.type = Str("TOOL")

\* C16: generate_task_list returns (it never raises) the whole response when
\* that parses as a JSON list; otherwise what the first json fenced block
\* holds when that parses as a JSON list; otherwise the empty list.
C16_TaskListParsingOrder ==
    llm_call.op = "generate_task_list" =>
        llm_call.result =
            IF llm_call.backend.k = "content" /\ llm_call.backend.whole.k = "list"
            THEN llm_call.backend.whole.items
            ELSE IF llm_call.backend.k = "content" /\ llm_call.backend.fence.k = "list"
            THEN llm_call.backend.fence.items
            ELSE <<>>

C16_Witness ==
    /\ llm_call.op = "generate_task_list"
    /\ llm_call.backend.k = "content"
    /\ llm_call.backend.whole = Num
    /\ llm_call.backend.fence.k = "list"
    /\ llm_call.result = llm_call.backend.fence.items
    /\ llm_call.result # <<>>

\* C17: interpret_results returns a string (it never raises): the text of the
\* backend when the call succeeds, and when it fails the apology followed by
\* the error's message as it is.
C17_InterpretAlwaysReturnsText ==
    llm_call.op = "interpret_results" =>
        /\ llm_call.result.k = "str"
        /\ llm_call.backend.k = "ok" => llm_call.result = Str(llm_call.backend.text)
        /\ llm_call.backend.k = "error" =>
              llm_call.result = Str(ApologyPrefix \o llm_call.backend.message)

C17_Witness ==
    /\ llm_call.op = "interpret_results"
    /\ llm_call.backend.k = "error"
    /\ llm_call.result = Str(ApologyPrefix \o "llm down")

-----------------------------------------------------------------------------
(* Tool output, checked in SpecText *)

\* The text with every surrogate code unit replaced and every other
\* character kept, in order
Replaced(text) == [n \in DOMAIN text |-> IF IsSurrogate(text[n]) THEN "?" ELSE text[n]]

\* C21: the text of a tool's output that call_tool returns, and the 'result'
\* string _execute_tasks records for the call (the output, or the error
\* message), hold no surrogate code unit: each one is replaced by a
\* placeholder and every other character is kept, in order.
C21_OutputSanitized ==
    (text_call.op = "call_tool" /\ text_call.remote) =>
        /\ \A n \in DOMAIN text_call.recorded : ~IsSurrogate(text_call.recorded[n])
        /\ IF text_call.raised
           THEN text_call.recorded =
                  <<ErrorPrefix, ToolErrorMsg, text_call.tool, ": ">>
                      \o Replaced(text_call.outcome.error)
           ELSE /\ text_call.returned =
                     [n \in DOMAIN text_call.outcome.content |->
                         Replaced(text_call.outcome.content[n])]
                /\ text_call.recorded = Replaced(Concat(text_call.outcome.content))

-----------------------------------------------------------------------------
(* Overlapping turns, checked in SpecConc *)

InFlight == {c \in Callers : calls[c].pc # "idle"}

\* The positions in the history of the entries a call's context was made of
ContextSpan(c) ==
    {n \in 1..calls[c].user_at : n > calls[c].user_at - DefaultMaxEntries}

\* C22: turns on one agent are serialized: at most one process_request is in
\* flight, every user entry of the history is followed at once by the
\* response of its turn, and the context of a turn holds no user entry of
\* another turn that has not finished.
C22_TurnsSerialized ==
    /\ Cardinality(InFlight) <= 1
    /\ \A n \in DOMAIN conversation_history :
         (conversation_history[n].role = "user" /\ n < Len(conversation_history))
             => conversation_history[n + 1].role = "assistant"
    /\ \A c \in InFlight, d \in InFlight :
         c # d => calls[d].user_at \notin ContextSpan(c)

-----------------------------------------------------------------------------
(* Initialization with a server that never answers, checked in SpecInit *)

\* The server's transport answers both the connect and the discovery
Responds(server) ==
    /\ init_run.pc # "idle"
    /\ init_run.connect[server] = "ok"
    /\ init_run.list[server] = "ok"

\* The server is connected and the tools it lists are registered
Usable(server) ==
    /\ server \in Range(clients)
    /\ \A t \in Range(ListedTools(server)) : t.name \in ToolNames(tools_info)

\* C23: in an initialize, whatever the other servers do (a connect or a
\* discovery that never completes included), every server whose transport
\* answers is eventually connected with its tools registered.
C23_SlowServerDoesNotBlock ==
    \A sv \in Range(Servers) : Responds(sv) ~> Usable(sv)

-----------------------------------------------------------------------------
(* The order of the steps of a turn, checked in Spec *)

\* The moves from one step of the pipeline to the next: Idle, Classifying,
\* then Responding or Planning, Executing, Interpreting, Responding (an empty
\* plan goes from Planning to Responding), and back to Idle
PipelineOrder ==
    {<<"idle", "classifying">>,
     <<"classifying", "responding">>, <<"classifying", "planning">>,
     <<"planning", "responding">>, <<"planning", "executing">>,
     <<"executing", "interpreting">>,
     <<"interpreting", "responding">>,
     <<"responding", "idle">>}

\* C26: a turn goes through its steps in the order Idle, Classifying, then
\* Responding, or Planning, Executing, Interpreting, Responding, and back to
\* Idle: planning only after classification, a tool invocation only while
\* executing a plan, one interpretation at most and after the invocations,
\* and no turn that ends anywhere but in Responding.
C26_PipelineOrder ==
    [][/\ pc' # pc => <<pc, pc'>> \in PipelineOrder
       /\ (planned' /\ ~planned) => pc = "planning"
       /\ (invoked' # invoked /\ invoked' # <<>>) => (pc = "executing" /\ planned)
       /\ (interpreted' # interpreted /\ interpreted' # <<>>)
             => (pc = "interpreting" /\ interpreted = <<>>)]_vars

-----------------------------------------------------------------------------
(* The order of the tool catalog, checked in SpecCM *)

\* The registrations an initialize makes, in the order it makes them: for each
\* connected server in turn, each tool of its listing
RECURSIVE Registrations(_)
Registrations(cl) ==
    IF cl = <<>> THEN <<>>
    ELSE (IF cm_last.lists[Head(cl)].ok
          THEN [n \in DOMAIN cm_last.lists[Head(cl)].tools |->
                  [name |-> cm_last.lists[Head(cl)].tools[n].name, server |-> Head(cl)]]
          ELSE <<>>)
         \o Registrations(Tail(cl))

\* Of the registrations of each name, the most recent one, the order kept
RECURSIVE MostRecent(_)
MostRecent(regs) ==
    IF regs = <<>> THEN <<>>
    ELSE IF \E n \in DOMAIN Tail(regs) : Tail(regs)[n].name = Head(regs).name
         THEN MostRecent(Tail(regs))
         ELSE <<Head(regs)>> \o MostRecent(Tail(regs))

\* C27: the catalog (get_available_tools, format_tools_for_llm) lists the
\* tools in registration order, a name registered again by a later server
\* standing at the place of that most recent registration: checked after an
\* initialize that started from an empty registry.
C27_CatalogInRegistrationOrder ==
    [][(InitializeRan' /\ tools_info = <<>>) =>
          LET expected == MostRecent(Registrations(clients))'
          IN /\ get_available_tools(tools_info') =
                  [n \in DOMAIN expected |-> expected[n].name]
             /\ \A n \in DOMAIN expected :
                  /\ format_tools_for_llm(tools_info')[n][1] = expected[n].name
                  /\ format_tools_for_llm(tools_info')[n][3] = expected[n].server]_vars

-----------------------------------------------------------------------------
(* Repeated initialize, checked in SpecCM *)

\* C28: an initialize called while the manager is initialized attempts no
\* connection and no discovery and leaves the connected set, the registry
\* and the flag as they are, so a server that failed to connect stays
\* absent; an initialize called after close does attempt them again.
C28_InitializeIdempotent ==
    [][cm_last'.op = "initialize" =>
          IF initialized
          THEN /\ ~cm_last'.ran
               /\ clients' = clients
               /\ tools_info' = tools_info
               /\ initialized'
          ELSE cm_last'.ran]_vars

C28_Witness ==
    /\ cm_last.op = "initialize"
    /\ ~cm_last.ran
    /\ initialized
    /\ ~cm_last.connects["A"]
    /\ clients = <<"B">>

====
